---- MODULE Spec2Model ----
(***************************************************************************)
(* react-overridable: the override store (src/src/store.js), the markers   *)
(* Overridable (src/src/overridable.js) and Expandable                     *)
(* (src/unnamed/part_001), the component-level wrapper, parametrize, and   *)
(* dev mode (src/src/dev.js).                                              *)
(*                                                                         *)
(* JavaScript values are records with a "kind" field.  Objects used as     *)
(* maps (the store's `components`, a context value, a props object) are    *)
(* functions whose DOMAIN is the set of the object's own keys; property    *)
(* reads go through the prototype chain as the language does.  Arrays are  *)
(* heap cells: a value of kind "array" is a reference into `arrays`, so    *)
(* two objects holding the same reference share the array's contents.      *)
(***************************************************************************)
EXTENDS Integers, Sequences, FiniteSets, TLC

VARIABLES
    components,   \* store.js:35   this.components of the singleton overrideStore
    arrays,       \* the heap: the arrays created by append (store.js:44), by reference
    snapshot,     \* the object returned by the last getAll() (store.js:54)
    captured,     \* history: what `snapshot` held, arrays by content, when getAll() returned
    added,        \* history: per id, the value of the last add() since the last clear()
    context,      \* the value of OverridableContext / ExpandableContext seen by a render
    param,        \* closure variables of a ParametrizedComponent (overridable.js:13-28)
    lastOp,       \* the last operation: its inputs and its observable result
    isDevModeFlag,  \* dev.js:9    window._ReactOverridableIsDevMode
    phase,          \* per DevModeWrapper instance: how far its mount has come
    isDevMode       \* dev.js:23   per instance, the state held by useState

vars == <<components, arrays, snapshot, captured, added, context, param, lastOp,
          isDevModeFlag, phase, isDevMode>>

storeVars == <<components, arrays, snapshot, captured, added>>

devVars == <<isDevModeFlag, phase, isDevMode>>

---------------------------------------------------------------------------
(* Bounds *)

MaxLen == 2         \* elements pushed into one array
MaxChildren == 2    \* immediate children handed to a marker

---------------------------------------------------------------------------
(* Values *)

Undefined == [kind |-> "undefined"]

Null == [kind |-> "null"]

\* Function components used as replacements (the tests' NewComponent and
\* overriddenRenderElement) and as a default implementation (ExampleComponent).
NewComponent == [kind |-> "component", name |-> "NewComponent"]

OverriddenRenderElement == [kind |-> "component", name |-> "overriddenRenderElement"]

ExampleComponent == [kind |-> "component", name |-> "ExampleComponent"]

\* Object.prototype.toString: what an object literal answers for the key
\* "toString" when it has no own property of that name.
ObjectProtoToString == [kind |-> "builtin", name |-> "Object.prototype.toString"]

\* Keys every object literal inherits from Object.prototype ("toString"
\* stands for constructor, valueOf, hasOwnProperty, ...).
ObjectPrototypeKeys == {"toString"}

\* Identifiers are arbitrary strings chosen by the caller.
Ids == {"ExampleComponent", "toString"}

Replacements == {NewComponent, OverriddenRenderElement}

EmptyObject == [k \in {} |-> Undefined]

\* No ParametrizedComponent has been created.
NoParam == [kind |-> "none"]

\* Prop values are opaque tokens.
PropVals == {1, 2, 3}

Bool(b) == [kind |-> "boolean", value |-> b]

\* The DevModeWrapper instances of a page.
Instances == {"first", "second", "third"}

\* The module has been loaded: startDevMode was never called, nothing is mounted.
DevModeOff ==
    /\ isDevModeFlag = Undefined
    /\ phase = [i \in Instances |-> "unmounted"]
    /\ isDevMode = [i \in Instances |-> Bool(FALSE)]

ArrayRef(n) == [kind |-> "array", ref |-> n]

IsArray(v) == v.kind = "array"

\* JavaScript truthiness of the values of this model.
Truthy(v) == v.kind \notin {"undefined", "null"} /\ (v.kind = "boolean" => v.value)

\* obj[id]
GetProperty(obj, id) ==
    IF id \in DOMAIN obj THEN obj[id]
    ELSE IF id \in ObjectPrototypeKeys THEN ObjectProtoToString
    ELSE Undefined

\* id in obj
HasProperty(obj, id) == id \in DOMAIN obj \/ id \in ObjectPrototypeKeys

\* obj[id] = v
SetProperty(obj, id, v) ==
    [k \in DOMAIN obj \cup {id} |-> IF k = id THEN v ELSE obj[k]]

\* {...a, ...b}
Spread(a, b) ==
    [k \in DOMAIN a \cup DOMAIN b |-> IF k \in DOMAIN b THEN b[k] ELSE a[k]]

\* const {key, ...rest} = obj : the rest
Without(obj, keys) == [k \in DOMAIN obj \ keys |-> obj[k]]

\* A value as an observer sees it: an array by its contents.
Deref(heap, v) ==
    IF IsArray(v) THEN [kind |-> "list", items |-> heap[v.ref]] ELSE v

DerefObject(heap, obj) == [k \in DOMAIN obj |-> Deref(heap, obj[k])]

\* The array references an object holds.
RefsOf(obj) == {obj[k].ref : k \in {j \in DOMAIN obj : IsArray(obj[j])}}

\* The heap after the runtime has reclaimed the arrays that none of the
\* objects in `roots` references any more.
Collect(heap, roots) ==
    [r \in {q \in DOMAIN heap : \E o \in roots : q \in RefsOf(o)} |-> heap[r]]

\* The reference of a newly created array.
NewRef(heap) == CHOOSE n \in 1..(Cardinality(DOMAIN heap) + 1) : n \notin DOMAIN heap

\* heap with a new array `items` at reference r
Alloc(heap, r, items) == [q \in DOMAIN heap \cup {r} |-> IF q = r THEN items ELSE heap[q]]

---------------------------------------------------------------------------
(* The store: class OverriddenComponentRepository, store.js:33-62 *)

StoreInputs == Replacements \cup {Undefined}

NoAdd == [kind |-> "no add"]

Appended == [kind |-> "appended"]

\* add = (id, Component) => { this.components[id] = Component; }
Add(id, Component) ==
    /\ components' = SetProperty(components, id, Component)
    /\ added' = [added EXCEPT ![id] = Component]
    /\ arrays' = Collect(arrays, {components', snapshot, context})
    /\ lastOp' = [op |-> "add", id |-> id, value |-> Component]
    /\ UNCHANGED <<snapshot, captured, context, param, devVars>>

\* A faulty append that keeps a non-list entry as the first element.
AppendKeepsEntry(id, Component) ==
    LET cur == GetProperty(components, id)
        fresh == ~IsArray(cur)
        ref == IF fresh THEN NewRef(arrays) ELSE cur.ref
        start == IF fresh
                 THEN (IF id \in DOMAIN components /\ Truthy(cur) THEN <<cur>> ELSE <<>>)
                 ELSE arrays[ref]
    IN  /\ Len(start) < MaxLen
        /\ components' = IF fresh THEN SetProperty(components, id, ArrayRef(ref))
                         ELSE components
        /\ arrays' = Collect(Alloc(arrays, ref, Append(start, Component)),
                              {components', snapshot, context})
        /\ added' = [added EXCEPT ![id] = Appended]
        /\ lastOp' = [op |-> "append", id |-> id, value |-> Component,
                      before |-> Deref(arrays, cur)]
        /\ UNCHANGED <<snapshot, captured, context, param, devVars>>

\* append = (id, Component) => {
\*   if (!Array.isArray(this.components[id])) { this.components[id] = []; }
\*   this.components[id].push(Component);
\* }
StoreAppend(id, Component) ==
    LET cur == GetProperty(components, id)
        fresh == ~IsArray(cur)
        ref == IF fresh THEN NewRef(arrays) ELSE cur.ref
        start == IF fresh THEN <<>> ELSE arrays[ref]
    IN  /\ Len(start) < MaxLen
        /\ components' = IF fresh THEN SetProperty(components, id, ArrayRef(ref))
                         ELSE components
        /\ arrays' = Collect(Alloc(arrays, ref, Append(start, Component)),
                              {components', snapshot, context})
        /\ added' = [added EXCEPT ![id] = Appended]
        /\ lastOp' = [op |-> "append", id |-> id, value |-> Component,
                      before |-> Deref(arrays, cur)]
        /\ UNCHANGED <<snapshot, captured, context, param, devVars>>

\* get = id => { return this.components[id]; }
Get(id) ==
    /\ lastOp' = [op |-> "get", id |-> id,
                  result |-> Deref(arrays, GetProperty(components, id))]
    /\ UNCHANGED <<storeVars, context, param, devVars>>

\* getAll = () => { return {...this.components}; }
GetAll ==
    /\ snapshot' = Spread(EmptyObject, components)
    /\ captured' = DerefObject(arrays, components)
    /\ arrays' = Collect(arrays, {components, snapshot', context})
    /\ lastOp' = [op |-> "getAll", result |-> DerefObject(arrays, components)]
    /\ UNCHANGED <<components, added, context, param, devVars>>

\* clear = () => { this.components = {}; }
Clear ==
    /\ components' = EmptyObject
    /\ added' = [id \in Ids |-> NoAdd]
    /\ arrays' = Collect(arrays, {components', snapshot, context})
    /\ lastOp' = [op |-> "clear"]
    /\ UNCHANGED <<snapshot, captured, context, param, devVars>>

\* export const overrideStore = new OverriddenComponentRepository();
\* export const OverridableContext = React.createContext({});
Init ==
    /\ components = EmptyObject
    /\ arrays = EmptyObject
    /\ snapshot = EmptyObject
    /\ captured = EmptyObject
    /\ added = [id \in Ids |-> NoAdd]
    /\ context = EmptyObject
    /\ param = NoParam
    /\ lastOp = [op |-> "idle"]
    /\ DevModeOff

\* The store with every operation; append is given one Replacement.
NextStore ==
    \/ \E id \in Ids, c \in StoreInputs : Add(id, c)
    \/ \E id \in Ids : StoreAppend(id, NewComponent)
    \/ \E id \in Ids : Get(id)
    \/ GetAll
    \/ Clear

SpecStore == Init /\ [][NextStore]_vars

\* The store without snapshots; append is given either Replacement.
NextAppend ==
    \/ \E id \in Ids, c \in StoreInputs : Add(id, c)
    \/ \E id \in Ids, c \in Replacements : StoreAppend(id, c)
    \/ \E id \in Ids : Get(id)
    \/ Clear

SpecAppend == Init /\ [][NextAppend]_vars

---------------------------------------------------------------------------
(* React elements *)

PropKeys == {"title", "color"}

\* Props objects over the given keys.
PropsOver(keys) == UNION {[d -> PropVals] : d \in SUBSET keys}

Str(v) == [kind |-> "string", value |-> v]

Thrown == [kind |-> "throw"]

\* React.createElement(type, config): `key` is taken out of config and kept
\* on the element, the rest of config becomes the element's props.
CreateElement(type, config) ==
    [kind |-> "element", type |-> type,
     key |-> IF "key" \in DOMAIN config THEN config["key"] ELSE Null,
     props |-> Without(config, {"key", "ref"})]

\* React.cloneElement(element, config): the element with config merged over
\* its props; type and key are kept.
CloneElement(element, config) ==
    [element EXCEPT !.props = Spread(element.props, Without(config, {"key", "ref"}))]

\* export function DevModeWrapper({id, children})  (dev.js:68)
DevModeWrapper == [kind |-> "component", name |-> "DevModeWrapper"]

\* <DevModeWrapper id={id}>{children}</DevModeWrapper>
DevModeWrapped(id, children) ==
    [kind |-> "element", type |-> DevModeWrapper,
     key |-> Null, id |-> id, children |-> children]

\* The children a marker is handed: none, one <div> element with any props,
\* or a <div/> followed by <span/> siblings.
Host(tag, props) == [kind |-> "element", type |-> Str(tag), key |-> Null, props |-> props]

ChildrenInputs ==
    {<<>>} \cup
    {<<Host("div", p)>> : p \in PropsOver(PropKeys)} \cup
    {<<Host("div", EmptyObject)>> \o [i \in 1..n |-> Host("span", EmptyObject)] :
        n \in 1..(MaxChildren - 1)}

\* The props object a marker is rendered with: id, children and the
\* pass-through props.
MarkerProps(id, children, rest) ==
    [k \in {"id", "children"} \cup DOMAIN rest |->
        IF k = "id" THEN id ELSE IF k = "children" THEN children ELSE rest[k]]

MarkerInputs ==
    {MarkerProps(id, ch, rest) :
        id \in Ids, ch \in ChildrenInputs, rest \in PropsOver(PropKeys)}

\* A faulty single-child check that takes the first of several children.
OnlyChildTakesFirst(children) ==
    IF Len(children) = 0 THEN Null ELSE children[1]

\* children ? React.Children.only(children) : null
\* (no children: null; exactly one element: that element; otherwise it throws)
OnlyChild(children) ==
    IF Len(children) = 0 THEN Null
    ELSE IF Len(children) = 1 THEN children[1]
    ELSE Thrown

\* `${id}-${i}` with i counted from 0
ElementKey(id, i) == Str(id \o "-" \o ToString(i - 1))

---------------------------------------------------------------------------
(* The markers: Overridable (overridable.js:38-55), Expandable (part_001:10-28) *)

\* A faulty merge in which the child's own props win over the pass-through props.
OverriddenConfigChildWins(childProps, restProps) == Spread(restProps, childProps)

\* {...childProps, ...restProps}
OverriddenConfig(childProps, restProps) == Spread(childProps, restProps)

\* A faulty expansion that gives every sibling the same key.
ExpandedConfigSameKey(id, i, childProps, restProps) ==
    SetProperty(Spread(childProps, restProps), "key", Str(id))

\* {...childProps, ...restProps, key: `${id}-${i}`}
ExpandedConfig(id, i, childProps, restProps) ==
    SetProperty(Spread(childProps, restProps), "key", ElementKey(id, i))

\* function Overridable({id, children, ...restProps})
OverridableOutput(registry, props) ==
    LET id == props["id"]
        children == props["children"]
        restProps == Without(props, {"id", "children"})
        child == OnlyChild(children)
        childProps == IF child.kind = "element" THEN child.props ELSE EmptyObject
    IN  IF child = Thrown THEN Thrown
        ELSE IF HasProperty(registry, id)
        THEN CreateElement(GetProperty(registry, id),
                           OverriddenConfig(childProps, restProps))
        ELSE IF child.kind = "element" THEN CloneElement(child, childProps)
        ELSE Null

\* function Expandable({id, children, ...restProps})
ExpandableOutput(registry, heap, props) ==
    LET id == props["id"]
        children == props["children"]
        restProps == Without(props, {"id", "children"})
        child == OnlyChild(children)
        childProps == IF child.kind = "element" THEN child.props ELSE EmptyObject
        overrides == GetProperty(registry, id)
    IN  IF child = Thrown THEN Thrown
        ELSE IF HasProperty(registry, id)
        THEN IF ~IsArray(overrides) THEN Thrown   \* overrides.map is not a function
             ELSE DevModeWrapped(id,
                    [i \in 1..Len(heap[overrides.ref]) |->
                        CreateElement(heap[overrides.ref][i],
                                      ExpandedConfig(id, i, childProps, restProps))])
        ELSE IF child.kind = "element"
        THEN DevModeWrapped(id, <<CloneElement(child, childProps)>>)
        ELSE Null

\* A render pass is synchronous: it has been committed before the next begins.
RenderOps == {"Overridable", "Expandable", "Overridable.component", "Parametrized"}

Commit ==
    /\ lastOp.op \in RenderOps
    /\ lastOp' = [op |-> "idle"]
    /\ UNCHANGED <<storeVars, context, param, devVars>>

RenderOverridable(props) ==
    /\ lastOp.op \notin RenderOps
    /\ lastOp' = [op |-> "Overridable", props |-> props,
                  result |-> OverridableOutput(context, props)]
    /\ UNCHANGED <<storeVars, context, param, devVars>>

RenderExpandable(props) ==
    /\ lastOp.op \notin RenderOps
    /\ lastOp' = [op |-> "Expandable", props |-> props,
                  result |-> ExpandableOutput(context, arrays, props)]
    /\ UNCHANGED <<storeVars, context, param, devVars>>

\* The registries a Provider is given: per id no entry, an entry holding
\* undefined, a Replacement, or a list of Replacements.
NoEntry == [kind |-> "no entry"]

List(items) == [kind |-> "list", items |-> items]

EntryShapes ==
    {NoEntry, Undefined, NewComponent} \cup
    {List(items) : items \in UNION {[1..n -> Replacements] : n \in 0..MaxLen}}

IdRef(id) == IF id = "toString" THEN 2 ELSE 1

RegistryObject(shape) ==
    [id \in {k \in Ids : shape[k] # NoEntry} |->
        IF shape[id].kind = "list" THEN ArrayRef(IdRef(id)) ELSE shape[id]]

RegistryHeap(shape) ==
    [r \in {IdRef(k) : k \in {j \in Ids : shape[j].kind = "list"}} |->
        shape[CHOOSE k \in Ids : IdRef(k) = r].items]

\* <OverridableContext.Provider value={registry}> around the markers; without
\* a Provider the context is the default {} of React.createContext({}).
InitMarker ==
    /\ components = EmptyObject
    /\ snapshot = EmptyObject
    /\ captured = EmptyObject
    /\ added = [id \in Ids |-> NoAdd]
    /\ param = NoParam
    /\ lastOp = [op |-> "idle"]
    /\ DevModeOff
    /\ \E shape \in [Ids -> EntryShapes] :
          /\ context = RegistryObject(shape)
          /\ arrays = RegistryHeap(shape)

NextMarker ==
    \/ \E props \in MarkerInputs : RenderOverridable(props)
    \/ \E props \in MarkerInputs : RenderExpandable(props)
    \/ Commit

SpecMarker == InitMarker /\ [][NextMarker]_vars

---------------------------------------------------------------------------
(* Overridable.component (overridable.js:72-88) and parametrize (13-33) *)

\* Overridable.component(id, Component): the Overridden function component,
\* with Overridden.originalComponent = Component.
Wrapper(id, Component) ==
    [kind |-> "wrapper", id |-> id, originalComponent |-> Component]

\* Component.originalComponent is set (only Overridable.component sets it)
HasOriginalComponent(c) == c.kind = "wrapper"

\* The wrappers of the default implementation, and wrappers of those.
Wrappers ==
    {Wrapper(id, c) :
        id \in Ids,
        c \in {ExampleComponent} \cup {Wrapper(inner, ExampleComponent) : inner \in Ids}}

\* Props a component is rendered with; a missing "children" key stands for
\* no children (undefined or null).
ComponentProps == PropsOver(PropKeys \cup {"children"})

\* const {children, ...rest} = obj : the children, as an object that has
\* the key "children" when there are any
ChildrenPart(obj) == [k \in DOMAIN obj \cap {"children"} |-> obj[k]]

\* React.createElement(type, config, children)
CreateElementWithChildren(type, config, children) ==
    CreateElement(type, Spread(config, children))

\* const Overridden = ({children, ...props}) => {
\*   const overriddenComponent = overriddenComponents[id];
\*   return React.createElement(overriddenComponent || Component, props, children);
\* }
WrapperOutput(registry, w, incoming) ==
    LET overriddenComponent == GetProperty(registry, w.id)
    IN  CreateElementWithChildren(
            IF Truthy(overriddenComponent) THEN overriddenComponent
            ELSE w.originalComponent,
            Without(incoming, {"children"}), ChildrenPart(incoming))

RenderWrapper(w, incoming) ==
    /\ lastOp.op \notin RenderOps
    /\ lastOp' = [op |-> "Overridable.component", wrapper |-> w, props |-> incoming,
                  result |-> WrapperOutput(context, w, incoming)]
    /\ UNCHANGED <<storeVars, context, param, devVars>>

NextComponent ==
    \/ \E w \in Wrappers, incoming \in ComponentProps : RenderWrapper(w, incoming)
    \/ Commit

SpecComponent == InitMarker /\ [][NextComponent]_vars

\* extraProps given as an object, or as a function of the incoming props.
ObjectExtra(props) == [kind |-> "object", props |-> props]

FunctionExtra(name) == [kind |-> "function", name |-> name]

\* The tests' ({title, ...props}) => ({title: `Other ${title}`, ...props});
\* `Other ${v}` is the token v + 10, `Other undefined` the token 10.
OtherTitle(props) ==
    SetProperty(props, "title",
                IF "title" \in DOMAIN props THEN props["title"] + 10 ELSE 10)

CallExtra(f, props) == OtherTitle(props)

Targets == {ExampleComponent} \cup Wrappers

Extras == {ObjectExtra(e) : e \in ComponentProps} \cup {FunctionExtra("otherTitle")}

\* parametrize(Component, extraProps): a new ParametrizedComponent closing
\* over the two parameters.  History: `given` keeps the arguments as they
\* were passed, `rendered` tells whether the component has rendered, `calls`
\* lists the props each invocation of a function extraProps was given.
Parametrize(Component, extraProps) ==
    /\ lastOp.op \notin RenderOps
    /\ param' = [kind |-> "closure", Component |-> Component, extraProps |-> extraProps,
                 given |-> [Component |-> Component, extraProps |-> extraProps],
                 rendered |-> FALSE, calls |-> <<>>]
    /\ lastOp' = [op |-> "parametrize"]
    /\ UNCHANGED <<storeVars, context, devVars>>

\* A faulty merge in which the incoming props win over extraProps.
ParametrizedConfigIncomingWins(props, extraProps) == Spread(extraProps, props)

\* {...props, ...extraProps}
ParametrizedConfig(props, extraProps) == Spread(props, extraProps)

\* A faulty ParametrizedComponent that keeps the function in extraProps and
\* so invokes it at every render.
RenderParametrizedNoMemo(props) ==
    LET isFunction == param.extraProps.kind = "function"
        extraProps == IF isFunction
                      THEN ObjectExtra(CallExtra(param.extraProps.name, props))
                      ELSE param.extraProps
        Component == IF HasOriginalComponent(param.Component)
                     THEN param.Component.originalComponent
                     ELSE param.Component
        merged == ParametrizedConfig(props, extraProps.props)
    IN  /\ lastOp.op \notin RenderOps
        /\ param # NoParam
        /\ Len(param.calls) < 2
        /\ param' = [param EXCEPT !.Component = Component,
                                  !.rendered = TRUE,
                                  !.calls = IF isFunction THEN Append(@, props) ELSE @]
        /\ lastOp' = [op |-> "Parametrized", props |-> props,
                      result |-> CreateElementWithChildren(
                                    Component, Without(merged, {"children"}),
                                    ChildrenPart(merged))]
        /\ UNCHANGED <<storeVars, context, devVars>>

\* const ParametrizedComponent = props => { ... }  (overridable.js:14-28)
RenderParametrized(props) ==
    LET isFunction == param.extraProps.kind = "function"
        extraProps == IF isFunction
                      THEN ObjectExtra(CallExtra(param.extraProps.name, props))
                      ELSE param.extraProps
        Component == IF HasOriginalComponent(param.Component)
                     THEN param.Component.originalComponent
                     ELSE param.Component
        merged == ParametrizedConfig(props, extraProps.props)
    IN  /\ lastOp.op \notin RenderOps
        /\ param # NoParam
        /\ param' = [param EXCEPT !.Component = Component, !.extraProps = extraProps,
                                  !.rendered = TRUE,
                                  !.calls = IF isFunction THEN Append(@, props) ELSE @]
        /\ lastOp' = [op |-> "Parametrized", props |-> props,
                      result |-> CreateElementWithChildren(
                                    Component, Without(merged, {"children"}),
                                    ChildrenPart(merged))]
        /\ UNCHANGED <<storeVars, context, devVars>>

NextParametrize ==
    \/ \E c \in Targets, e \in Extras : Parametrize(c, e)
    \/ \E props \in ComponentProps : RenderParametrized(props)
    \/ Commit

SpecParametrize == Init /\ [][NextParametrize]_vars

---------------------------------------------------------------------------
(* The store behind a Provider (store.test.js:35-47) *)

\* A faulty Provider update that hands down the snapshot taken earlier.
ProvideStale ==
    /\ lastOp.op \notin RenderOps
    /\ context' = snapshot
    /\ arrays' = Collect(arrays, {components, snapshot, context'})
    /\ lastOp' = [op |-> "provide"]
    /\ UNCHANGED <<components, snapshot, captured, added, param, devVars>>

\* <OverridableContext.Provider value={overrideStore.getAll()}> is rendered:
\* getAll() is called and its result becomes the context value.
ProvideStore ==
    /\ lastOp.op \notin RenderOps
    /\ snapshot' = Spread(EmptyObject, components)
    /\ captured' = DerefObject(arrays, components)
    /\ context' = snapshot'
    /\ arrays' = Collect(arrays, {components, snapshot', context'})
    /\ lastOp' = [op |-> "provide"]
    /\ UNCHANGED <<components, added, param, devVars>>

\* The markers and the wrapper of the rendered tree: one per id, each marker
\* around one <div/>.
LiveMarkers == {MarkerProps(id, <<Host("div", EmptyObject)>>, EmptyObject) : id \in Ids}

LiveWrappers == {Wrapper(id, ExampleComponent) : id \in Ids}

\* Store mutations, Provider updates and renders in any order.  Init is the
\* tree mounted under a Provider given getAll() of the empty store.
NextLive ==
    \/ \E id \in Ids, c \in StoreInputs : Add(id, c)
    \/ \E id \in Ids : StoreAppend(id, NewComponent)
    \/ Clear
    \/ ProvideStore
    \/ \E props \in LiveMarkers : RenderOverridable(props)
    \/ \E props \in LiveMarkers : RenderExpandable(props)
    \/ \E w \in LiveWrappers : RenderWrapper(w, EmptyObject)
    \/ Commit

SpecLive == Init /\ [][NextLive]_vars

---------------------------------------------------------------------------
(* Markers and wrappers under the same Provider *)

\* Under each registry a Provider may be given, the markers and the
\* wrappers of either id are rendered.
NextResolve ==
    \/ \E props \in LiveMarkers : RenderOverridable(props)
    \/ \E props \in LiveMarkers : RenderExpandable(props)
    \/ \E w \in Wrappers : RenderWrapper(w, EmptyObject)
    \/ Commit

SpecResolve == InitMarker /\ [][NextResolve]_vars

---------------------------------------------------------------------------
(* Dev mode: startDevMode and useDevMode (dev.js:5-36) *)

\* v ?? d
NullishOr(v, d) == IF v.kind \in {"undefined", "null"} THEN d ELSE v

\* The instances whose eventHandler is registered on window: those whose
\* effect has run and has not been cleaned up.
Listeners == {i \in Instances : phase[i] = "mounted"}

\* export function startDevMode(): the event is dispatched, each registered
\* eventHandler calls setDevMode(true); then the flag is set.
StartDevMode ==
    /\ isDevMode' = [i \in Instances |->
                        IF i \in Listeners THEN Bool(TRUE) ELSE isDevMode[i]]
    /\ isDevModeFlag' = Bool(TRUE)
    /\ UNCHANGED <<storeVars, context, param, lastOp, phase>>

\* The first render of an instance: useState takes its initial value from
\* the flag; the effect is left pending.
UseDevModeRender(i) ==
    /\ phase[i] = "unmounted"
    /\ phase' = [phase EXCEPT ![i] = "rendered"]
    /\ isDevMode' = [isDevMode EXCEPT ![i] = NullishOr(isDevModeFlag, Bool(FALSE))]
    /\ UNCHANGED <<storeVars, context, param, lastOp, isDevModeFlag>>

\* The pending effect of an instance runs: window.addEventListener(event, eventHandler)
UseDevModeEffect(i) ==
    /\ phase[i] = "rendered"
    /\ phase' = [phase EXCEPT ![i] = "mounted"]
    /\ UNCHANGED <<storeVars, context, param, lastOp, isDevModeFlag, isDevMode>>

\* The instance is unmounted: the effect's cleanup removes the listener and
\* the instance's state is gone.
Unmount(i) ==
    /\ phase[i] # "unmounted"
    /\ phase' = [phase EXCEPT ![i] = "unmounted"]
    /\ isDevMode' = [isDevMode EXCEPT ![i] = Bool(FALSE)]
    /\ UNCHANGED <<storeVars, context, param, lastOp, isDevModeFlag>>

NextDevMode ==
    \/ StartDevMode
    \/ \E i \in Instances : UseDevModeRender(i)
    \/ \E i \in Instances : UseDevModeEffect(i)
    \/ \E i \in Instances : Unmount(i)

SpecDevMode == Init /\ [][NextDevMode]_vars

---------------------------------------------------------------------------
(* Claims about the markers *)

\* The nodes a marker's render put in the tree (through the DevModeWrapper,
\* which renders its children as they are).
OutputNodes(result) ==
    IF result.kind # "element" THEN <<>>
    ELSE IF result.type = DevModeWrapper THEN result.children
    ELSE <<result>>

\* The pass-through props of a marker render: all it was given but id and children.
PassThroughKeys(props) == DOMAIN props \ {"id", "children"}

\* merge(child's props, pass-through props), pass-through winning
IsMerge(got, childProps, props) ==
    /\ DOMAIN got = DOMAIN childProps \cup PassThroughKeys(props)
    /\ \A k \in DOMAIN got :
          got[k] = IF k \in PassThroughKeys(props) THEN props[k] ELSE childProps[k]

MarkerOp == lastOp.op \in {"Overridable", "Expandable"}

\* C1: when id is a key of the registry mapped to a Replacement R, Overridable
\* with one child renders R, not the child, with the child's props merged
\* with the pass-through props, pass-through winning; id is not passed to R.
C1_OverrideRendersReplacement ==
    (/\ lastOp.op = "Overridable"
     /\ Len(lastOp.props["children"]) = 1
     /\ lastOp.props["id"] \in DOMAIN context
     /\ context[lastOp.props["id"]].kind = "component") =>
        LET R == context[lastOp.props["id"]]
            child == lastOp.props["children"][1]
        IN  /\ lastOp.result.kind = "element"
            /\ lastOp.result.type = R
            /\ lastOp.result.type # child.type
            /\ "id" \notin DOMAIN lastOp.result.props
            /\ IsMerge(lastOp.result.props, child.props, lastOp.props)

\* An override was rendered where the child and the pass-through props
\* collide on a key with different values.
C1_Witness ==
    /\ lastOp.op = "Overridable"
    /\ Len(lastOp.props["children"]) = 1
    /\ lastOp.props["id"] = "ExampleComponent"
    /\ "ExampleComponent" \in DOMAIN context
    /\ context["ExampleComponent"] = NewComponent
    /\ lastOp.props["children"][1].props = [title |-> 1, color |-> 2]
    /\ PassThroughKeys(lastOp.props) = {"color"}
    /\ lastOp.props["color"] = 3
    /\ lastOp.result.kind = "element"
    /\ lastOp.result.props = [title |-> 1, color |-> 3]

\* C2: for every id that is not present in the registry (the empty default
\* included), a marker with exactly one child renders that child with the
\* child's own props unchanged: no pass-through prop is injected, no
\* Replacement is rendered, no error is raised.
C2_AbsentRendersChild ==
    (/\ MarkerOp
     /\ Len(lastOp.props["children"]) = 1
     /\ lastOp.props["id"] \notin DOMAIN context) =>
        OutputNodes(lastOp.result) = <<lastOp.props["children"][1]>>

\* C6: a marker given more than one immediate child raises an error and
\* produces no output, whether or not its id is in the registry.
C6_ManyChildrenThrow ==
    (MarkerOp /\ Len(lastOp.props["children"]) > 1) =>
        /\ lastOp.result = Thrown
        /\ OutputNodes(lastOp.result) = <<>>

\* A marker whose id is overridden was given two children and threw.
C6_Witness ==
    /\ lastOp.op = "Overridable"
    /\ Len(lastOp.props["children"]) = 2
    /\ lastOp.props["id"] \in DOMAIN context
    /\ context[lastOp.props["id"]] = NewComponent
    /\ lastOp.result = Thrown

\* C10: when the registry entry for an Expandable's id is a list of n
\* Replacements, it renders exactly n nodes, one per entry in list order,
\* each with the child's props merged with the pass-through props
\* (pass-through winning) and each with a key no sibling has; the child
\* itself is not rendered.
C10_ListRendersEach ==
    (/\ lastOp.op = "Expandable"
     /\ Len(lastOp.props["children"]) <= 1
     /\ lastOp.props["id"] \in DOMAIN context
     /\ IsArray(context[lastOp.props["id"]])) =>
        LET list == arrays[context[lastOp.props["id"]].ref]
            nodes == OutputNodes(lastOp.result)
            childProps == IF Len(lastOp.props["children"]) = 1
                          THEN lastOp.props["children"][1].props ELSE EmptyObject
        IN  /\ lastOp.result.kind = "element"
            /\ Len(nodes) = Len(list)
            /\ \A i \in 1..Len(nodes) :
                  /\ nodes[i].type = list[i]
                  /\ IsMerge(nodes[i].props, childProps, lastOp.props)
                  /\ nodes[i].key # Null
                  /\ \A j \in 1..Len(nodes) : i # j => nodes[i].key # nodes[j].key
            /\ \A i \in 1..Len(nodes) :
                  \A c \in 1..Len(lastOp.props["children"]) :
                      nodes[i].type # lastOp.props["children"][c].type

\* A two-entry list was expanded into two nodes in list order, the
\* pass-through prop winning over the child's.
C10_Witness ==
    /\ lastOp.op = "Expandable"
    /\ lastOp.props["id"] = "ExampleComponent"
    /\ Len(lastOp.props["children"]) = 1
    /\ lastOp.props["children"][1].props = [title |-> 1, color |-> 2]
    /\ PassThroughKeys(lastOp.props) = {"color"}
    /\ lastOp.props["color"] = 3
    /\ "ExampleComponent" \in DOMAIN context
    /\ IsArray(context["ExampleComponent"])
    /\ arrays[context["ExampleComponent"].ref] = <<OverriddenRenderElement, NewComponent>>
    /\ Len(OutputNodes(lastOp.result)) = 2
    /\ OutputNodes(lastOp.result)[1].type = OverriddenRenderElement
    /\ OutputNodes(lastOp.result)[2].props = [title |-> 1, color |-> 3]

---------------------------------------------------------------------------
(* Claims about the component-level wrapper and parametrize *)

\* C3: a wrapper built by wrap(id, DefaultImpl) renders the registry's
\* Replacement for id when there is one, and DefaultImpl when id is absent or
\* the wrapper is rendered outside any scope; either with exactly the
\* incoming props and children.
C3_WrapperResolves ==
    lastOp.op = "Overridable.component" =>
        LET id == lastOp.wrapper.id
        IN  /\ (id \in DOMAIN context /\ context[id].kind = "component") =>
                  /\ lastOp.result.type = context[id]
                  /\ lastOp.result.props = lastOp.props
            /\ id \notin DOMAIN context =>
                  /\ lastOp.result.type = lastOp.wrapper.originalComponent
                  /\ lastOp.result.props = lastOp.props

\* C4: parametrize(Target, extra) with a fixed extra, rendered with incoming
\* props p, renders with merge(p, extra), extra winning on every colliding
\* key; children are those of p unless extra has a children entry.  A Target
\* that is not a wrapper is the component rendered (a wrapper Target is
\* unwrapped first, which C5 is about).
C4_ExtraWins ==
    (lastOp.op = "Parametrized" /\ param.given.extraProps.kind = "object") =>
        LET p == lastOp.props
            extra == param.given.extraProps.props
            got == lastOp.result.props
        IN  /\ DOMAIN got = DOMAIN p \cup DOMAIN extra
            /\ \A k \in DOMAIN got :
                  got[k] = IF k \in DOMAIN extra THEN extra[k] ELSE p[k]
            /\ ~HasOriginalComponent(param.given.Component) =>
                  lastOp.result.type = param.given.Component

\* parametrize(T, {title: 1}) rendered with {title: 2, color: 3, children: 1}
\* gave {title: 1, color: 3, children: 1}.
C4_Witness ==
    /\ lastOp.op = "Parametrized"
    /\ param.given.extraProps = ObjectExtra([title |-> 1])
    /\ lastOp.props = [title |-> 2, color |-> 3, children |-> 1]
    /\ lastOp.result.props = [title |-> 1, color |-> 3, children |-> 1]

\* C5: when parametrize is applied to a wrapper, every render of the
\* ParametrizedComponent, the first and all later ones, renders the
\* wrapper's default implementation and never the wrapper.
C5_RendersTrueDefault ==
    (lastOp.op = "Parametrized" /\ HasOriginalComponent(param.given.Component)) =>
        /\ lastOp.result.type = param.given.Component.originalComponent
        /\ lastOp.result.type # param.given.Component

\* C12: when parametrize's extra argument is a function, over any sequence
\* of renders of the ParametrizedComponent the function is invoked exactly
\* once, at the first render and with that render's incoming props; every
\* later render merges its own incoming props with the props computed at
\* that first render, whatever the later incoming props are.
C12_FunctionCalledOnce ==
    [][ (/\ lastOp'.op = "Parametrized"
         /\ lastOp.op # "Parametrized"
         /\ param.given.extraProps.kind = "function") =>
            LET computed == CallExtra(param.given.extraProps.name, param'.calls[1])
                got == lastOp'.result.props
            IN  /\ ~param.rendered => /\ param.calls = <<>>
                                      /\ param'.calls = <<lastOp'.props>>
                /\ param.rendered => /\ Len(param.calls) = 1
                                     /\ param'.calls = param.calls
                /\ DOMAIN got = DOMAIN lastOp'.props \cup DOMAIN computed
                /\ \A k \in DOMAIN got :
                      got[k] = IF k \in DOMAIN computed THEN computed[k]
                               ELSE lastOp'.props[k]
      ]_vars

\* A later render with {title: 2, color: 3} of a component first rendered
\* with {title: 1} gave the title computed at the first render.
C12_Witness ==
    /\ lastOp.op = "Parametrized"
    /\ param.given.extraProps.kind = "function"
    /\ param.calls = <<[title |-> 1]>>
    /\ lastOp.props = [title |-> 2, color |-> 3]
    /\ lastOp.result.props = [title |-> 11, color |-> 3]

---------------------------------------------------------------------------
(* Claims about the store *)

\* C7: after any sequence of add and clear, get(id) returns the value of the
\* most recent add(id, .) since the last clear, and absent (undefined) if
\* there was none; add(id, R) changes no entry other than id's; clear()
\* followed by getAll() returns an empty mapping.
C7_LastWriterWins ==
    [][ /\ (lastOp'.op = "get" /\ added'[lastOp'.id] # Appended) =>
             lastOp'.result = (IF added'[lastOp'.id] = NoAdd THEN Undefined
                               ELSE added'[lastOp'.id])
        /\ lastOp'.op = "add" =>
             \A k \in Ids \ {lastOp'.id} :
                /\ (k \in DOMAIN components') = (k \in DOMAIN components)
                /\ k \in DOMAIN components => components'[k] = components[k]
        /\ (lastOp.op = "clear" /\ lastOp'.op = "getAll") =>
             lastOp'.result = EmptyObject
      ]_vars

\* C8: append(id, R) leaves under id a list that is the earlier list (empty
\* when there was no entry or the entry was not a list) followed by R.
C8_Append ==
    lastOp.op = "append" =>
        LET after == Deref(arrays, GetProperty(components, lastOp.id))
            earlier == IF lastOp.before.kind = "list" THEN lastOp.before.items
                       ELSE <<>>
        IN  /\ lastOp.id \in DOMAIN components
            /\ after.kind = "list"
            /\ after.items = Append(earlier, lastOp.value)

\* Two appends of different Replacements gave a two-element list in append order.
C8_Witness ==
    /\ lastOp.op = "append"
    /\ lastOp.before = [kind |-> "list", items |-> <<NewComponent>>]
    /\ Deref(arrays, GetProperty(components, lastOp.id)) =
            [kind |-> "list", items |-> <<NewComponent, OverriddenRenderElement>>]

\* An append on a non-list Replacement put there by add dropped that Replacement.
C8_WitnessReset ==
    /\ lastOp.op = "append"
    /\ lastOp.before = OverriddenRenderElement
    /\ Deref(arrays, GetProperty(components, lastOp.id)) =
            [kind |-> "list", items |-> <<NewComponent>>]

\* C9: a snapshot returned by getAll() is never changed by a later store
\* operation: its keys and the value under each key, list contents included,
\* stay what they were when getAll() returned.
C9_SnapshotUnchanged == DerefObject(arrays, snapshot) = captured

---------------------------------------------------------------------------
(* Claims about renders under a changing store *)

\* The render recorded in lastOp resolved its id against `registry`.
ResolvesAgainst(registry) ==
    LET id == IF lastOp.op = "Overridable.component" THEN lastOp.wrapper.id
              ELSE lastOp.props["id"]
        entry == GetProperty(registry, id)
    IN  /\ lastOp.op = "Overridable.component" =>
              lastOp.result.type = (IF Truthy(entry) THEN entry
                                    ELSE lastOp.wrapper.originalComponent)
        /\ lastOp.op = "Overridable" =>
              IF HasProperty(registry, id) THEN lastOp.result.type = entry
              ELSE lastOp.result = lastOp.props["children"][1]
        /\ lastOp.op = "Expandable" =>
              IF ~HasProperty(registry, id)
              THEN OutputNodes(lastOp.result) = <<lastOp.props["children"][1]>>
              ELSE IF ~IsArray(entry) THEN lastOp.result = Thrown
              ELSE /\ Len(OutputNodes(lastOp.result)) = Len(arrays[entry.ref])
                   /\ \A i \in 1..Len(arrays[entry.ref]) :
                         OutputNodes(lastOp.result)[i].type = arrays[entry.ref][i]

\* C11: for any interleaving of store mutations (add, append, clear) and
\* renders, each Marker or wrapper render resolves its id against the store's
\* contents as they are at the moment of that render: an entry added,
\* replaced or cleared before the render begins is the one the render uses.
C11_RendersUseStore ==
    lastOp.op \in {"Overridable", "Expandable", "Overridable.component"} =>
        ResolvesAgainst(components)

\* C11, amended: each Marker or wrapper render resolves its id against the
\* context value as it is at the moment of that render, whatever earlier
\* renders decided; store mutations reach the renders when the Provider is
\* next given getAll(), after which the context holds the store's contents.
C11_RendersUseContext ==
    /\ lastOp.op \in {"Overridable", "Expandable", "Overridable.component"} =>
          ResolvesAgainst(context)
    /\ lastOp.op = "provide" =>
          DerefObject(arrays, context) = DerefObject(arrays, components)

\* The wrapper rendered NewComponent from the context after the store had
\* been cleared and given another entry for the same id.
C11_Witness ==
    /\ lastOp.op = "Overridable.component"
    /\ lastOp.wrapper.id = "ExampleComponent"
    /\ "ExampleComponent" \in DOMAIN context
    /\ context["ExampleComponent"] = NewComponent
    /\ "ExampleComponent" \in DOMAIN components
    /\ components["ExampleComponent"] = OverriddenRenderElement
    /\ lastOp.result.type = NewComponent

---------------------------------------------------------------------------
(* Claims about dev mode *)

\* C13: once startDevMode has been called the flag stays true, and every
\* DevModeWrapper instance (mounted before the call, in the middle of
\* mounting when it is made, or mounted afterwards) comes to observe dev
\* mode as active, at the latest when its mount is complete, and never
\* afterwards observes it as inactive.
C13_DevModePermanent ==
    [][ /\ isDevModeFlag = Bool(TRUE) => isDevModeFlag' = Bool(TRUE)
        /\ \A i \in Instances :
              (phase[i] # "unmounted" /\ phase'[i] # "unmounted"
                 /\ isDevMode[i] = Bool(TRUE)) => isDevMode'[i] = Bool(TRUE)
        /\ \A i \in Instances :
              (isDevModeFlag' = Bool(TRUE) /\ phase'[i] = "mounted") =>
                  isDevMode'[i] = Bool(TRUE)
      ]_vars

---------------------------------------------------------------------------
(* Claims about the markers and the wrapper together *)

\* The marker render in lastOp did not fall back to its cloned child.
MarkerOverrode ==
    OutputNodes(lastOp.result) # <<lastOp.props["children"][1]>>

\* The wrapper render in lastOp did not fall back to its default implementation.
WrapperOverrode == lastOp.result.type # lastOp.wrapper.originalComponent

\* C14: for every registry and every id, the Marker and the wrapper make the
\* same override decision: both treat id as overridden, or both fall back to
\* the default (the cloned child for the Marker, the default implementation
\* for the wrapper); entries holding an empty value and ids the registry
\* object answers for without an entry included.
C14_SameDecision ==
    /\ MarkerOp =>
          (MarkerOverrode <=>
              WrapperOutput(context, Wrapper(lastOp.props["id"], ExampleComponent),
                            EmptyObject).type # ExampleComponent)
    /\ lastOp.op = "Overridable.component" =>
          (WrapperOverrode <=>
              OverridableOutput(context,
                  MarkerProps(lastOp.wrapper.id, <<Host("div", EmptyObject)>>,
                              EmptyObject)) # Host("div", EmptyObject))

====
